---- MODULE Spec2Model ----
(***************************************************************************)
(* Model of stress-test.py: endpoint discovery, the run controller         *)
(* (run_test), the progress reporter (update_ui_periodically), the request *)
(* dispatcher (background_test) and its pool workers (call_endpoint).      *)
(***************************************************************************)
EXTENDS Integers, Sequences, FiniteSets, TLC

\* ------------------------------------------------------------------ bounds
MaxRequests == 3
MaxThreads == 2

\* --------------------------------------------------------------- constants
SecondsPerMinute == 60

None == "None"

base_url == "http://home.dev.com"

FallbackUrls ==
  << "http://home.dev.com/api/flask-test/v1/info",
     "http://home.dev.com/api/fastapi-test/v1/info",
     "http://home.dev.com/api/fastapi-test-revert/v1/info",
     "http://home.dev.com/api/robert/v1/info",
     "http://home.dev.com/api/flask-test/v1/sample",
     "http://home.dev.com/api/fastapi-test/v1/sample",
     "http://home.dev.com/api/fastapi-test-revert/v1/sample",
     "http://home.dev.com/api/robert/v1/sample" >>

VARIABLES
  success_count, failure_count, is_running, url_options,
  url_value,
  success_label, failure_label, status_label, time_label, tpm_label,
  start_enabled, refresh_enabled, notification,
  timer_pending, disc_pc, query_result,
  rt_pc, total, threads, stop_event, elapsed, total_tx, tpm,
  rep_pc,
  disp_pc, submitted, work_queue, idle_semaphore, pool, final_totals,
  attempts, target

shared == << success_count, failure_count, is_running, url_options >>
labels == << success_label, failure_label, status_label, time_label, tpm_label >>
buttons == << start_enabled, refresh_enabled >>
discovery == << timer_pending, disc_pc, query_result >>
locals == << rt_pc, total, threads, stop_event, elapsed, total_tx, tpm >>
executor == << disp_pc, submitted, work_queue, idle_semaphore, pool, final_totals,
              attempts >>
vars == << shared, url_value, labels, buttons, notification, discovery, locals,
           rep_pc, executor, target >>

\* ------------------------------------------------------- endpoint discovery
\* What the log service can answer: it raises, or it returns a sequence of
\* reader items; an item is a message (not a dict), or a dict with a 'path'.
Message == [dict |-> FALSE, path |-> None]

Row(p) == [dict |-> TRUE, path |-> p]

QueryOutcomes ==
  { [raised |-> TRUE, items |-> << >>],
    [raised |-> FALSE, items |-> << >>],
    [raised |-> FALSE, items |-> << Message >>],
    [raised |-> FALSE, items |-> << Row("/api/b"), Message, Row("/api/a") >>] }

NoQuery == [raised |-> FALSE, items |-> << >>]

RECURSIVE PathsOf(_)
PathsOf(items) ==
  IF items = << >> THEN << >>
  ELSE IF Head(items).dict
       THEN << Head(items).path >> \o PathsOf(Tail(items))
       ELSE PathsOf(Tail(items))

MakeUrls(paths) == [ i \in 1..Len(paths) |-> base_url \o paths[i] ]

fetch_splunk_paths(outcome) ==
  IF outcome.raised THEN << >> ELSE MakeUrls(PathsOf(outcome.items))

OrFallbackOmitted(urls) == urls

OrFallback(urls) == IF urls = << >> THEN FallbackUrls ELSE urls

\* The event loop runs one coroutine slice at a time: a handler can only run
\* while the reporter is suspended (not between its two label writes) and no
\* discovery is between its query and its assignment.
LoopFree == rep_pc # "mid" /\ disc_pc = "idle"

\* initialize_url_options up to the return of fetch_splunk_paths: started by
\* the one-shot timer or by the refresh button.
DiscoveryQuery ==
  /\ LoopFree
  /\ \/ timer_pending /\ timer_pending' = FALSE
     \/ refresh_enabled /\ UNCHANGED timer_pending
  /\ \E outcome \in QueryOutcomes : query_result' = outcome
  /\ disc_pc' = "fetched"
  /\ UNCHANGED << shared, url_value, labels, buttons, notification, locals,
                  rep_pc, executor, target >>

DefaultSelectionKept(opts, current) ==
  IF current = None /\ opts # << >> THEN opts[1] ELSE current

\* `if url_options: url_input.value = url_options[0]`.
DefaultSelection(opts, current) == IF opts # << >> THEN opts[1] ELSE current

\* initialize_url_options from the assignment of url_options to its end.
DiscoveryApply ==
  /\ disc_pc = "fetched"
  /\ LET opts == OrFallback(fetch_splunk_paths(query_result)) IN
       /\ url_options' = opts
       /\ url_value' = DefaultSelection(opts, url_value)
  /\ disc_pc' = "idle"
  /\ query_result' = NoQuery
  /\ UNCHANGED << success_count, failure_count, is_running, labels, buttons,
                  notification, timer_pending, locals, rep_pc, executor, target >>

\* ----------------------------------------------------------- input parsing
DigitChars == << "0", "1", "2", "3", "4", "5", "6", "7", "8", "9" >>

IsDigit(c) == \E d \in 1..10 : DigitChars[d] = c

DigitValue(c) == (CHOOSE d \in 1..10 : DigitChars[d] = c) - 1

RECURSIVE NatText(_)
NatText(n) ==
  IF n < 10 THEN << DigitChars[n + 1] >>
  ELSE NatText(n \div 10) \o << DigitChars[(n % 10) + 1] >>

\* The text a number field holds for the integer n.
IntText(n) == IF n < 0 THEN << "-" >> \o NatText(0 - n) ELSE NatText(n)

RECURSIVE DigitsValue(_)
DigitsValue(s) ==
  IF s = << >> THEN 0
  ELSE DigitsValue(SubSeq(s, 1, Len(s) - 1)) * 10 + DigitValue(s[Len(s)])

\* int(text): an optional sign followed by at least one digit, else ValueError.
PyInt(text) ==
  LET signed == text # << >> /\ text[1] \in { "-", "+" }
      body == IF signed THEN Tail(text) ELSE text
  IN IF body # << >> /\ \A i \in 1..Len(body) : IsDigit(body[i])
     THEN [ok |-> TRUE,
           value |-> IF signed /\ text[1] = "-" THEN 0 - DigitsValue(body)
                     ELSE DigitsValue(body)]
     ELSE [ok |-> FALSE, value |-> 0]

NonNumericTexts == { << >>, << "1", ".", "5" >> }

RequestTexts == { IntText(n) : n \in (0 - 1)..MaxRequests } \cup NonNumericTexts

ThreadTexts == { IntText(n) : n \in 0..MaxThreads } \cup NonNumericTexts

\* The elapsed times (seconds, end_time - start_time of a monotonic clock)
\* a run is observed with.
ElapsedValues == { 0, 61 }

\* ----------------------------------------------------------- HTTP target
Responses == { [exc |-> FALSE, status_code |-> c] : c \in { 199, 200, 399, 400 } }
               \cup { [exc |-> TRUE, status_code |-> 0] }

Targets == { "always_200", "connection_error", "any" }

ResponsesOf(tg) ==
  CASE tg = "always_200" -> { r \in Responses : ~r.exc /\ r.status_code = 200 }
    [] tg = "connection_error" -> { r \in Responses : r.exc }
    [] OTHER -> Responses

\* -------------------------------------------------------------- run_test
url_missing_never(v) == FALSE

url_missing(v) == v = None \/ v = ""

NoTpm == [zero_division |-> FALSE, num |-> 0, den |-> 1]

IdleWorker == [pc |-> "idle", reg |-> 0]

StartClickableAlways == TRUE

\* A click reaches run_test only while the start button is enabled.
StartClickable == start_enabled

ResetCounterOmitted(c) == c

\* `success_count = 0`, `failure_count = 0`.
ResetCounter(c) == 0

\* run_test when `not url_input.value`: notify and return.
RunTestRejected ==
  /\ LoopFree
  /\ StartClickable
  /\ url_missing(url_value)
  /\ notification' = "Please select an API endpoint"
  /\ UNCHANGED << shared, url_value, labels, buttons, discovery, locals,
                  rep_pc, executor, target >>

\* run_test from the reset of the counters to its first suspension, the
\* await of asyncio.to_thread; int() of a field may raise ValueError, which
\* ends run_test there.
RunTestBegin ==
  /\ LoopFree
  /\ StartClickable
  /\ ~url_missing(url_value)
  /\ success_count' = ResetCounter(success_count)
  /\ failure_count' = ResetCounter(failure_count)
  /\ is_running' = TRUE
  /\ success_label' = 0
  /\ failure_label' = 0
  /\ status_label' = "RUNNING"
  /\ time_label' = << 0, 0 >>
  /\ tpm_label' = 0
  /\ start_enabled' = FALSE
  /\ refresh_enabled' = FALSE
  /\ \E rq \in RequestTexts, th \in ThreadTexts, tg \in Targets :
       LET t == PyInt(rq)
           n == PyInt(th)
       IN IF t.ok /\ n.ok
          THEN /\ total' = t.value
               /\ threads' = n.value
               /\ stop_event' = FALSE
               /\ rep_pc' = "start"
               /\ rt_pc' = "dispatching"
               /\ disp_pc' = "start"
               /\ target' = tg
          ELSE /\ rt_pc' = "raised"
               /\ UNCHANGED << total, threads, stop_event, rep_pc, disp_pc, target >>
  /\ notification' = "none"
  /\ UNCHANGED << url_options, url_value, discovery, elapsed, total_tx, tpm,
                  submitted, work_queue, idle_semaphore, pool, final_totals,
                  attempts >>

\* ------------------------------------------------- update_ui_periodically
LoopContinuesUnchecked(stop) == TRUE

\* `while not stop_event_internal.is_set()`.
LoopContinues(stop) == ~stop

\* The loop test, and the first label write when the event is not set.
ReporterStep ==
  /\ rep_pc \in { "start", "sleep" }
  /\ disc_pc = "idle"
  /\ IF ~LoopContinues(stop_event)
     THEN /\ rep_pc' = "done"
          /\ UNCHANGED success_label
     ELSE /\ success_label' = success_count
          /\ rep_pc' = "mid"
  /\ UNCHANGED << shared, url_value, failure_label, status_label, time_label,
                  tpm_label, buttons, notification, discovery, locals, executor,
                  target >>

\* The second label write, then the sleep.
ReporterWriteFailure ==
  /\ rep_pc = "mid"
  /\ failure_label' = failure_count
  /\ rep_pc' = "sleep"
  /\ UNCHANGED << shared, url_value, success_label, status_label, time_label,
                  tpm_label, buttons, notification, discovery, locals, executor,
                  target >>

\* -------------------------------------------------------- background_test
\* ThreadPoolExecutor(max_workers): ValueError unless max_workers > 0.
PoolConstructible(max_workers) == max_workers > 0

SpawnAllowedOffByOne(num_threads, max_workers) == num_threads <= max_workers

\* submit starts another pool thread only below max_workers.
SpawnAllowed(num_threads, max_workers) == num_threads < max_workers

MoreToSubmitOffByOne(n, total_requests) == n <= total_requests

\* `for _ in range(total_requests)`.
MoreToSubmit(n, total_requests) == n < total_requests

DispatchConstruct ==
  /\ disp_pc = "start"
  /\ IF PoolConstructible(threads)
     THEN /\ disp_pc' = "submit"
          /\ UNCHANGED final_totals
     ELSE /\ disp_pc' = "raised"
          /\ final_totals' = << success_count, failure_count >>
  /\ UNCHANGED << shared, url_value, labels, buttons, notification, discovery,
                  locals, rep_pc, submitted, work_queue, idle_semaphore, pool,
                  attempts, target >>

\* executor.submit(call_endpoint, url): queue the work item, then reuse an
\* idle thread or start a new one.
DispatchSubmit ==
  /\ disp_pc = "submit"
  /\ MoreToSubmit(submitted, total)
  /\ submitted' = submitted + 1
  /\ work_queue' = work_queue + 1
  /\ IF idle_semaphore > 0
     THEN /\ idle_semaphore' = idle_semaphore - 1
          /\ UNCHANGED pool
     ELSE /\ pool' = IF SpawnAllowed(Len(pool), threads)
                     THEN Append(pool, IdleWorker) ELSE pool
          /\ UNCHANGED idle_semaphore
  /\ UNCHANGED << shared, url_value, labels, buttons, notification, discovery,
                  locals, rep_pc, disp_pc, final_totals, attempts, target >>

\* executor.submit when the new thread cannot be started: the work item is
\* queued, RuntimeError leaves the with block.
DispatchSubmitFails ==
  /\ disp_pc = "submit"
  /\ MoreToSubmit(submitted, total)
  /\ idle_semaphore = 0
  /\ SpawnAllowed(Len(pool), threads)
  /\ submitted' = submitted + 1
  /\ work_queue' = work_queue + 1
  /\ disp_pc' = "failing"
  /\ UNCHANGED << shared, url_value, labels, buttons, notification, discovery,
                  locals, rep_pc, idle_semaphore, pool, final_totals, attempts,
                  target >>

InFlight == { i \in 1..Len(pool) : pool[i].pc # "idle" }

AllJoinedQueueOnly == work_queue = 0 \/ pool = << >>

\* What as_completed and the executor's shutdown(wait=True) wait for: every
\* pool thread has drained the queue and finished its work item.
AllJoined == /\ InFlight = { }
             /\ work_queue = 0 \/ pool = << >>

\* The end of the with block: the dispatcher returns, or re-raises.
DispatchJoin ==
  /\ \/ disp_pc = "submit" /\ ~MoreToSubmit(submitted, total) /\ disp_pc' = "returned"
     \/ disp_pc = "failing" /\ disp_pc' = "raised"
  /\ AllJoined
  /\ final_totals' = << success_count, failure_count >>
  /\ UNCHANGED << shared, url_value, labels, buttons, notification, discovery,
                  locals, rep_pc, submitted, work_queue, idle_semaphore, pool,
                  attempts, target >>

\* ----------------------------------------------------------- call_endpoint
is_success(r) == ~r.exc /\ 200 <= r.status_code /\ r.status_code < 400

\* A pool thread takes a work item and sends the GET. The threads are
\* interchangeable: the first idle one stands for whichever the queue wakes.
WorkerTake(i) ==
  /\ pool[i].pc = "idle"
  /\ \A j \in 1..(i - 1) : pool[j].pc # "idle"
  /\ work_queue > 0
  /\ work_queue' = work_queue - 1
  /\ pool' = [pool EXCEPT ![i].pc = "request"]
  /\ attempts' = attempts + 1
  /\ UNCHANGED << shared, url_value, labels, buttons, notification, discovery,
                  locals, rep_pc, disp_pc, submitted, idle_semaphore,
                  final_totals, target >>

\* The response or the exception arrives; the thread reads the counter it
\* is about to add to.
WorkerRespond(i) ==
  /\ pool[i].pc = "request"
  /\ \E r \in ResponsesOf(target) :
       pool' = IF is_success(r)
               THEN [pool EXCEPT ![i] = [pc |-> "inc_success", reg |-> success_count]]
               ELSE [pool EXCEPT ![i] = [pc |-> "inc_failure", reg |-> failure_count]]
  /\ UNCHANGED << shared, url_value, labels, buttons, notification, discovery,
                  locals, rep_pc, disp_pc, submitted, work_queue, idle_semaphore,
                  final_totals, attempts, target >>

IncrementedTwice(reg) == reg + 2

\* The value `count += 1` stores for the value it read.
Incremented(reg) == reg + 1

\* The thread stores the sum back; the work item is done.
WorkerStore(i) ==
  /\ pool[i].pc \in { "inc_success", "inc_failure" }
  /\ IF pool[i].pc = "inc_success"
     THEN success_count' = Incremented(pool[i].reg) /\ UNCHANGED failure_count
     ELSE failure_count' = Incremented(pool[i].reg) /\ UNCHANGED success_count
  /\ pool' = [pool EXCEPT ![i] = IdleWorker]
  /\ idle_semaphore' = idle_semaphore + 1
  /\ UNCHANGED << is_running, url_options, url_value, labels, buttons,
                  notification, discovery, locals, rep_pc, disp_pc, submitted,
                  work_queue, final_totals, attempts, target >>

\* ------------------------------------------------- run_test, finalization
\* try / except Exception / finally: the finally block runs however the
\* dispatcher ended.
AfterDispatchNoFinally(outcome) ==
  IF outcome = "raised" THEN "propagate" ELSE "finally"

AfterDispatch(outcome) == "finally"

duration_minutes_unguarded(e) == [num |-> e, den |-> SecondsPerMinute]

duration_minutes(e) ==
  IF e > 0 THEN [num |-> e, den |-> SecondsPerMinute] ELSE [num |-> 1, den |-> 1]

\* total_tx / duration_minutes, as a fraction; ZeroDivisionError on zero.
Divide(n, d) ==
  IF d.num = 0 THEN [zero_division |-> TRUE, num |-> 0, den |-> 1]
  ELSE [zero_division |-> FALSE, num |-> n * d.den, den |-> d.num]

\* The except clause and the finally block up to `await update_task`.
RunTestFinally ==
  /\ LoopFree
  /\ rt_pc = "dispatching"
  /\ disp_pc \in { "returned", "raised" }
  /\ notification' = IF disp_pc = "raised" THEN "Test failed" ELSE notification
  /\ IF AfterDispatch(disp_pc) = "finally"
     THEN \E e \in ElapsedValues :
            LET tx == success_count + failure_count
                q == Divide(tx, duration_minutes(e))
            IN /\ elapsed' = e
               /\ total_tx' = tx
               /\ tpm' = q
               /\ IF q.zero_division
                  THEN rt_pc' = "raised" /\ UNCHANGED stop_event
                  ELSE rt_pc' = "await_update" /\ stop_event' = TRUE
     ELSE /\ rt_pc' = "raised"
          /\ UNCHANGED << elapsed, total_tx, tpm, stop_event >>
  /\ UNCHANGED << shared, url_value, labels, buttons, discovery, total, threads,
                  rep_pc, executor, target >>

\* run_test has returned: its frame, the reporter task and the executor
\* are gone.
Discard ==
  /\ total' = 0
  /\ threads' = 0
  /\ stop_event' = FALSE
  /\ elapsed' = 0
  /\ total_tx' = 0
  /\ tpm' = NoTpm
  /\ rep_pc' = "none"
  /\ disp_pc' = "none"
  /\ submitted' = 0
  /\ work_queue' = 0
  /\ idle_semaphore' = 0
  /\ pool' = << >>
  /\ final_totals' = << 0, 0 >>
  /\ attempts' = 0
  /\ target' = "any"

FinalUpdateSkipped(count, shown) == shown

\* The label a final update shows for a counter.
FinalUpdate(count, shown) == count

ReporterAwaitedNot == TRUE

\* `await update_task` returns once the reporter task has ended.
ReporterAwaited == rep_pc = "done"

\* After `await update_task`: the final update, COMPLETE, controls enabled.
RunTestComplete ==
  /\ rt_pc = "await_update"
  /\ ReporterAwaited
  /\ success_label' = FinalUpdate(success_count, success_label)
  /\ failure_label' = FinalUpdate(failure_count, failure_label)
  /\ time_label' = << elapsed \div SecondsPerMinute, elapsed % SecondsPerMinute >>
  /\ tpm_label' = tpm.num \div tpm.den
  /\ status_label' = "COMPLETE"
  /\ is_running' = FALSE
  /\ start_enabled' = TRUE
  /\ refresh_enabled' = TRUE
  /\ rt_pc' = "idle"
  /\ Discard
  /\ UNCHANGED << success_count, failure_count, url_options, url_value,
                  notification, discovery >>

\* ------------------------------------------------------------ the program
Init ==
  /\ success_count = 0
  /\ failure_count = 0
  /\ is_running = FALSE
  /\ url_options = << >>
  /\ url_value = None
  /\ success_label = 0
  /\ failure_label = 0
  /\ status_label = "IDLE"
  /\ time_label = << 0, 0 >>
  /\ tpm_label = 0
  /\ start_enabled = TRUE
  /\ refresh_enabled = TRUE
  /\ notification = "none"
  /\ timer_pending = TRUE
  /\ disc_pc = "idle"
  /\ query_result = NoQuery
  /\ rt_pc = "idle"
  /\ total = 0
  /\ threads = 0
  /\ stop_event = FALSE
  /\ elapsed = 0
  /\ total_tx = 0
  /\ tpm = NoTpm
  /\ rep_pc = "none"
  /\ disp_pc = "none"
  /\ submitted = 0
  /\ work_queue = 0
  /\ idle_semaphore = 0
  /\ pool = << >>
  /\ final_totals = << 0, 0 >>
  /\ attempts = 0
  /\ target = "any"

Worker(i) == WorkerTake(i) \/ WorkerRespond(i) \/ WorkerStore(i)

Next ==
  \/ DiscoveryQuery
  \/ DiscoveryApply
  \/ RunTestRejected
  \/ RunTestBegin
  \/ ReporterStep
  \/ ReporterWriteFailure
  \/ DispatchConstruct
  \/ DispatchSubmit
  \/ DispatchSubmitFails
  \/ DispatchJoin
  \/ \E i \in 1..Len(pool) : WorkerTake(i)
  \/ \E i \in 1..Len(pool) : WorkerRespond(i)
  \/ \E i \in 1..Len(pool) : WorkerStore(i)
  \/ RunTestFinally
  \/ RunTestComplete

Spec == Init /\ [][Next]_vars

\* The coroutines the event loop has made ready run; threads make progress
\* and every GET ends within its timeout. RunTestFinally waits for the
\* reporter to suspend, which it does again and again.
FairSpec ==
  /\ Spec
  /\ WF_vars(DiscoveryApply)
  /\ WF_vars(ReporterStep)
  /\ WF_vars(ReporterWriteFailure)
  /\ WF_vars(DispatchConstruct)
  /\ WF_vars(DispatchSubmit)
  /\ WF_vars(DispatchJoin)
  /\ WF_vars(\E i \in 1..Len(pool) : Worker(i))
  /\ SF_vars(RunTestFinally)
  /\ WF_vars(RunTestComplete)

\* ------------------------------------------------------------------ claims

\* C1: once background_test has returned, with totalRequests >= 1 and
\* workerCount >= 1, success_count + failure_count equals totalRequests.
C1_NoLostIncrement ==
  (disp_pc = "returned" /\ total >= 1 /\ threads >= 1)
    => success_count + failure_count = total

\* C2: the number of call_endpoint executions in flight at the same time is
\* at most the configured worker count.
C2_BoundedConcurrency ==
  InFlight # { } => Cardinality(InFlight) <= threads

C2_Witness ==
  /\ Cardinality(InFlight) = threads
  /\ work_queue > 0

\* C3: when the dispatcher raises, the run is still finalized: the failure is
\* notified, the reporter is stopped, the metrics are computed from the counts
\* that exist, the status becomes COMPLETE and is_running false.
C3_Finalized ==
  /\ status_label = "COMPLETE"
  /\ ~is_running
  /\ rep_pc = "none"
  /\ notification = "Test failed"
  /\ LET e == time_label[1] * SecondsPerMinute + time_label[2]
         tx == success_count + failure_count
     IN tpm_label = IF e > 0 THEN (tx * SecondsPerMinute) \div e ELSE tx

C3_DispatchFailureFinalizes ==
  (rt_pc = "dispatching" /\ disp_pc = "raised") ~> C3_Finalized

C3_Witness ==
  /\ C3_Finalized
  /\ success_count + failure_count > 0

\* C4: after any run attempt the status is IDLE or COMPLETE and the start
\* and refresh controls are enabled.
C4_InteractiveAfterRun ==
  rt_pc \in { "idle", "raised" }
    => /\ status_label \in { "IDLE", "COMPLETE" }
       /\ start_enabled
       /\ refresh_enabled

\* C5: the final update of a run writes the counts the dispatcher finished
\* with, and nothing overwrites them while the status stays COMPLETE.
C5_FinalUpdateExact ==
  [][ /\ (rt_pc = "await_update" /\ rt_pc' = "idle")
         => /\ success_label' = final_totals[1]
            /\ failure_label' = final_totals[2]
      /\ (status_label = "COMPLETE" /\ status_label' = "COMPLETE")
         => UNCHANGED << success_label, failure_label >> ]_vars

C5_Witness ==
  /\ status_label = "COMPLETE"
  /\ success_label = success_count
  /\ failure_label = failure_count
  /\ success_count > 0
  /\ failure_count > 0

\* C6: run_test with no URL selected only reports the validation error; the
\* counters, is_running, the status and the controls stay as they are and
\* neither the reporter nor the dispatcher is started.
C6_RejectedRunChangesNothing ==
  [][ url_value = None
        => /\ UNCHANGED << success_count, failure_count, is_running,
                           status_label, start_enabled, refresh_enabled,
                           rep_pc, disp_pc, rt_pc >>
           /\ notification' # notification
                => notification' = "Please select an API endpoint" ]_vars

C6_Witness ==
  /\ notification = "Please select an API endpoint"
  /\ url_value = None
  /\ status_label = "IDLE"
  /\ rep_pc = "none"
  /\ disp_pc = "none"

\* C7: with a target that answers every request with 200, after dispatching
\* N requests success_count = N and failure_count = 0.
C7_AllSuccess ==
  (disp_pc = "returned" /\ target = "always_200" /\ total >= 0)
    => (success_count = total /\ failure_count = 0)

\* C8: with a target for which every request raises a connection error,
\* after dispatching N requests failure_count = N and success_count = 0.
C8_AllFailure ==
  (disp_pc = "returned" /\ target = "connection_error" /\ total >= 0)
    => (failure_count = total /\ success_count = 0)

\* C9: discovery never yields an empty list: the fallback list of 8 URLs
\* when the query raises or returns no paths, else base host + path for each
\* returned path, in the returned order.
C9_DiscoveryResult ==
  [][ (disc_pc = "fetched" /\ disc_pc' = "idle")
        => LET rows == SelectSeq(query_result.items, LAMBDA it : it.dict)
           IN /\ url_options' # << >>
              /\ IF query_result.raised \/ rows = << >>
                 THEN url_options' = FallbackUrls /\ Len(url_options') = 8
                 ELSE /\ Len(url_options') = Len(rows)
                      /\ \A i \in 1..Len(rows) :
                           url_options'[i] = base_url \o rows[i].path ]_vars

C9_Witness ==
  /\ disc_pc = "idle"
  /\ ~timer_pending
  /\ url_options = FallbackUrls

\* C10: transactions per minute is never a division by zero and is not
\* negative: total / (elapsed / 60) when elapsed > 0, total / 1 otherwise.
C10_TpmDefined ==
  /\ ~tpm.zero_division
  /\ rt_pc = "await_update"
       => /\ total_tx = success_count + failure_count
          /\ tpm.den > 0
          /\ tpm.num >= 0
          /\ elapsed > 0 => tpm.num * elapsed = total_tx * SecondsPerMinute * tpm.den
          /\ elapsed <= 0 => tpm.num = total_tx * tpm.den

C10_Witness ==
  /\ rt_pc = "await_update"
  /\ elapsed = 0
  /\ total_tx > 0

\* C11: when background_test has returned or raised, no call_endpoint
\* execution is in flight and none is queued.
C11_NothingLeftAtReturn ==
  disp_pc \in { "returned", "raised" }
    => (InFlight = { } /\ work_queue = 0)

\* C11, amended: whenever background_test has returned or raised no
\* call_endpoint execution is in flight; after a normal return every one of
\* the totalRequests units has completed and none is queued; a unit is left
\* queued only when the dispatch raised because no pool thread could be
\* started.
C11_JoinedAtReturn ==
  disp_pc \in { "returned", "raised" }
    => /\ InFlight = { }
       /\ disp_pc = "returned"
            => /\ work_queue = 0
               /\ total >= 0 => (submitted = total /\ attempts = total)
       /\ work_queue > 0 => (disp_pc = "raised" /\ pool = << >>)

C11_Witness ==
  /\ disp_pc = "returned"
  /\ total >= 2
  /\ attempts = total
  /\ Len(pool) >= 2

\* C12: in a run the counters are reset, the reporter and the dispatcher
\* are started together by run_test before either has taken a step, the
\* stop event is set only after the dispatcher has ended, the reporter ends
\* only after the stop event, and the final update comes after both.
C12_RunOrder ==
  [][ /\ (rep_pc = "none" /\ rep_pc' # "none")
         => /\ success_count' = 0 /\ failure_count' = 0
            /\ rep_pc' = "start"
            /\ disp_pc = "none" /\ disp_pc' = "start"
      /\ (disp_pc = "none" /\ disp_pc' # "none")
         => (rep_pc' = "start" /\ disp_pc' = "start")
      /\ (~stop_event /\ stop_event')
         => disp_pc \in { "returned", "raised" }
      /\ (rep_pc # "done" /\ rep_pc' = "done") => stop_event
      /\ (status_label # "COMPLETE" /\ status_label' = "COMPLETE")
         => /\ rep_pc = "done"
            /\ stop_event
            /\ disp_pc \in { "returned", "raised" } ]_vars

C12_Witness ==
  /\ status_label = "COMPLETE"
  /\ success_label + failure_label >= 2

\* C13: an execution of call_endpoint adds exactly one to success_count and
\* leaves failure_count alone after a response with status in [200, 400),
\* and adds exactly one to failure_count and leaves success_count alone
\* after any other status or an exception.
C13_ExactlyOneIncrement ==
  [][ \A i \in 1..Len(pool) :
        (Len(pool') = Len(pool) /\ pool[i].pc \in { "inc_success", "inc_failure" }
           /\ pool'[i].pc = "idle")
        => IF pool[i].pc = "inc_success"
           THEN /\ success_count' = success_count + 1
                /\ failure_count' = failure_count
           ELSE /\ failure_count' = failure_count + 1
                /\ success_count' = success_count ]_vars

\* C14: a run starts with both counters at zero, before its reporter has
\* taken a step and before any of its pool threads exists, and while it is
\* running the counters count no more than the requests this run has
\* submitted: nothing is carried over from an earlier run.
C14_CountersResetPerRun ==
  [][ /\ (~is_running /\ is_running')
         => /\ success_count' = 0 /\ failure_count' = 0
            /\ pool' = << >> /\ submitted' = 0 /\ attempts' = 0
            /\ rep_pc' \in { "none", "start" }
      /\ is_running' => success_count' + failure_count' <= submitted'
      /\ (~is_running /\ ~is_running')
         => UNCHANGED << success_count, failure_count >> ]_vars

C14_Witness ==
  /\ is_running
  /\ disp_pc = "returned"
  /\ total >= 2
  /\ success_count + failure_count = total

\* C15: once the stop event is set the reporter writes no further snapshot
\* and ends at its next test of the flag, and the controller's wait for it
\* completes.
C15_ReporterStops ==
  /\ [][ /\ stop_event => rep_pc # "mid"
         /\ (stop_event /\ rt_pc = "await_update" /\ rt_pc' = "await_update")
            => /\ UNCHANGED << success_label, failure_label >>
               /\ rep_pc' # rep_pc => rep_pc' = "done" ]_vars
  /\ (stop_event /\ rt_pc = "await_update")
       ~> (rt_pc = "idle" /\ status_label = "COMPLETE")

C15_Witness ==
  /\ rt_pc = "await_update"
  /\ stop_event
  /\ rep_pc = "done"
  /\ success_label + failure_label < success_count + failure_count

\* C16: a dispatch that is not aborted by the pool sends exactly
\* totalRequests GETs whatever the responses are: never more than were
\* submitted (no retry), and none is skipped after a failure.
C16_ExactlyTotalAttempts ==
  /\ attempts <= submitted
  /\ total >= 0 => submitted <= total
  /\ (disp_pc = "returned" /\ total >= 0) => attempts = total

C16_Witness ==
  /\ disp_pc = "returned"
  /\ total >= 2
  /\ attempts = total
  /\ failure_count >= 1

Range(q) == { q[i] : i \in 1..Len(q) }

StartedUpdates ==
  attempts - Cardinality({ i \in 1..Len(pool) : pool[i].pc = "request" })

\* C17: every discovery sets the selection to the first entry of the list
\* it installs, so the selection is a member of the current list once a
\* discovery has run; no other step, a test run included, changes the list
\* or the selection.
C17_SelectionFollowsDiscovery ==
  [][ /\ (disc_pc = "fetched" /\ disc_pc' = "idle")
         => /\ url_options' # << >>
            /\ url_value' = url_options'[1]
      /\ ~(disc_pc = "fetched" /\ disc_pc' = "idle")
         => UNCHANGED << url_options, url_value >>
      /\ url_options' # << >> => url_value' \in Range(url_options') ]_vars

C17_Witness ==
  /\ status_label = "COMPLETE"
  /\ Len(url_options) = 2
  /\ url_value = url_options[1]
  /\ disc_pc = "idle"

\* C18: a run is in progress exactly while is_running is true, and then the
\* start and refresh controls are disabled; a run starts, resetting the
\* counters and starting a dispatch, only when no run is in progress and no
\* pool thread is in flight.
C18_SingleRun ==
  [][ /\ is_running' <=> rt_pc' \in { "dispatching", "await_update", "raised" }
      /\ is_running' <=> status_label' = "RUNNING"
      /\ is_running' <=> ~start_enabled'
      /\ is_running' <=> ~refresh_enabled'
      /\ InFlight' # { } => is_running'
      /\ (disp_pc # "start" /\ disp_pc' = "start")
         => (~is_running /\ rt_pc = "idle" /\ InFlight = { } /\ disp_pc = "none") ]_vars

C18_Witness ==
  /\ is_running
  /\ InFlight # { }
  /\ ~start_enabled
  /\ ~refresh_enabled

\* C19: during a run the counters are not negative and their sum is at most
\* the number of requests whose counter update has started, which is at most
\* totalRequests; after the run they keep their values.
C19_NoOverCount ==
  [][ /\ success_count' >= 0 /\ failure_count' >= 0
      /\ (is_running' /\ total' >= 0)
         => /\ success_count' + failure_count' <= StartedUpdates'
            /\ StartedUpdates' <= total'
      /\ (~is_running /\ ~is_running')
         => (success_count' = success_count /\ failure_count' = failure_count) ]_vars

C19_Witness ==
  /\ is_running
  /\ total >= 2
  /\ StartedUpdates = total
  /\ success_count + failure_count < StartedUpdates

\* C20: while a run is in progress neither counter ever decreases.
C20_CountersMonotonic ==
  [][ (is_running /\ is_running')
        => (success_count' >= success_count /\ failure_count' >= failure_count) ]_vars

====
